---- MODULE Spec2Model ----
(***************************************************************************)
(* Model of shamir-combine (src/src/bin/shamir-combine.rs): reconstruction *)
(* of a secret from Shamir shares over GF(2^8).                            *)
(*                                                                         *)
(* The program reads share lines "K=W=S=VALUES=" from stdin                *)
(* (parse_shares), then main dispatches on the width, runs pass_1 (common  *)
(* Lagrange coefficients) and pass_2 (per-word recovery) and prints the    *)
(* answer.  Every failure is a panic that ends the process.                *)
(***************************************************************************)
EXTENDS Integers, Sequences, FiniteSets, TLC

(***************************************************************************)
(* Bounds of the model.                                                    *)
(***************************************************************************)
MaxK == 3
MaxWords == 2
MaxLines == MaxK + 1

(***************************************************************************)
(* Field arithmetic of GF(2^8).  The field engine is the external crate    *)
(* gf_2px; the program names its polynomial in a comment (0x11b).          *)
(***************************************************************************)
GF8Poly == 283
FieldSize == 256

RECURSIVE XorBits(_, _, _)
XorBits(a, b, n) ==
    IF n = 0 THEN 0
    ELSE ((a + b) % 2) + 2 * XorBits(a \div 2, b \div 2, n - 1)

\* a ^ b on values of up to 9 bits
Xor(a, b) == XorBits(a, b, 9)

\* multiplication by x modulo the field polynomial
XTime(a) == IF 2 * a >= FieldSize THEN Xor(2 * a, GF8Poly) ELSE 2 * a

RECURSIVE MulBits(_, _)
MulBits(a, b) ==
    IF b = 0 THEN 0
    ELSE Xor(IF b % 2 = 1 THEN a ELSE 0, MulBits(XTime(a), b \div 2))

\* powers of the generator 0x03, as in a logarithm table driven engine
RECURSIVE PowBits(_, _)
PowBits(a, n) ==
    IF n = 0 THEN 1
    ELSE LET h == PowBits(a, n \div 2)
             sq == MulBits(h, h)
         IN  IF n % 2 = 1 THEN MulBits(sq, a) ELSE sq

ExpT == [n \in 0..(FieldSize - 2) |-> PowBits(3, n)]

LogT == [a \in 1..(FieldSize - 1) |->
            CHOOSE n \in 0..(FieldSize - 2) : ExpT[n] = a]

\* field.mul
Mul(a, b) ==
    IF a = 0 \/ b = 0 THEN 0
    ELSE ExpT[(LogT[a] + LogT[b]) % (FieldSize - 1)]

InvTable == [a \in 1..(FieldSize - 1) |->
                ExpT[(FieldSize - 1 - LogT[a]) % (FieldSize - 1)]]

\* What field.div does with a zero divisor is decided by the field crate:
\* it either fails (DivisionByZero) or, with a table driven inverse,
\* yields the zero element.
DivZeroOutcomes == {"panic", "zero"}

\* field.div for a nonzero divisor
Div(a, b) == Mul(a, InvTable[b])

(***************************************************************************)
(* Share lines.  A line of stdin is modelled by what line.trim().split("=")*)
(* and the three parse() calls see of it:                                  *)
(*   nseg  number of segments the split yields                             *)
(*   k,w,s the decimal numbers of segments 0..2 (a negative number stands  *)
(*         for text that parse() rejects)                                  *)
(*   hex   segment 3 as a sequence of digits 0..15 (16: not a hex digit)   *)
(*   tail  length of segment 4                                             *)
(***************************************************************************)
Line(k, w, s, hex) ==
    [nseg |-> 5, k |-> k, w |-> w, s |-> s, hex |-> hex, tail |-> 0]

\* v[0].parse::<u16>() succeeds
ParseU16(n) == n >= 0 /\ n <= 65535

\* v[2].parse::<u64>() succeeds
ParseU64(n) == n >= 0

\* hex::decode accepts the digits
HexValid(hex) == Len(hex) % 2 = 0 /\ \A n \in 1..Len(hex) : hex[n] < 16

\* hex::decode: two digits per byte, high digit first
HexDecode(hex) == [n \in 1..(Len(hex) \div 2) |-> 16 * hex[2 * n - 1] + hex[2 * n]]

RECURSIVE Pow2(_)
Pow2(n) == IF n = 0 THEN 1 ELSE 2 * Pow2(n - 1)

\* the builds the crate can be compiled as: with and without overflow checks
Builds == {"debug", "release"}

\* `1 << (w-1)` typed u16 (line 160) overflows for a shift of 16 or more
ShiftOverflows16(w) == w - 1 >= 16

\* `1 << (w-1)` as u16; a release build masks the shift amount
Shl16(w) == Pow2((w - 1) % 16)

\* line 159
WidthKnown(w) == w = 4 \/ w = 8 \/ w = 16 \/ w = 32

\* line 160, negated: the quorum passes
QuorumInRange(k, w) == ~(k < 1 \/ k > Shl16(w))

\* IndexInRange without the upper bound
IndexInRangeNoUpper(s, w) == ~(s < 1)

\* line 171, negated: the share index passes (u64 arithmetic; the indices of
\* the model stay below 2^31, the bound of width 32)
IndexInRange(s, w) == ~(s < 1 \/ (w < 32 /\ s > Pow2(w - 1)))

\* Ignored with the comparison off by one
IgnoredOffByOne(count, k) == count >= k

\* line 172
Ignored(count, k) == count > k

\* FieldImplemented with an arm for width 16
FieldImplementedWide(w) == w = 8 \/ w = 16

\* lines 177-179: the widths the match stores an x value for
FieldImplemented(w) == w = 8

\* XStore with a 7 bit mask
XStoreMasked(s) == s % 128

\* line 178: (s & 255) as u8
XStore(s) == s % 256

\* Mismatch without the comparison of the lengths
MismatchNoLength(decoder, k, w, hlen) ==
    IF w # decoder.width THEN "mismatched field width value"
    ELSE IF k # decoder.quorum THEN "mismatched quorum value"
    ELSE ""

\* lines 166-168: first complaint about a later line, "" when it agrees
Mismatch(decoder, k, w, hlen) ==
    IF w # decoder.width THEN "mismatched field width value"
    ELSE IF k # decoder.quorum THEN "mismatched quorum value"
    ELSE IF hlen # decoder.hex_length THEN "wrong share length"
    ELSE ""

Outcome(msg, decoder, count, out) ==
    [msg |-> msg, decoder |-> decoder, count |-> count, out |-> out]

\* lines 156-180: the part of the loop body after the hex data was appended
Admit(line, decoder, count, build) ==
    LET k == line.k
        w == line.w
        s == line.s
        hlen == Len(line.hex)
        first == count = 0
        fixed == IF first
                 THEN [decoder EXCEPT !.quorum = k, !.width = w,
                                      !.hex_length = hlen]
                 ELSE decoder
        count1 == count + 1
    IN  IF first /\ ~WidthKnown(w)
        THEN Outcome("bad field width", decoder, count, <<>>)
        ELSE IF first /\ k >= 1 /\ ShiftOverflows16(w) /\ build = "debug"
        THEN Outcome("attempt to shift left with overflow", decoder, count, <<>>)
        ELSE IF first /\ ~QuorumInRange(k, w)
        THEN Outcome("bad quorum value", decoder, count, <<>>)
        ELSE IF ~first /\ Mismatch(decoder, k, w, hlen) # ""
        THEN Outcome(Mismatch(decoder, k, w, hlen), decoder, count, <<>>)
        ELSE IF ~IndexInRange(s, w)
        THEN Outcome("bad share index", fixed, count1, <<>>)
        ELSE IF Ignored(count1, k)
        THEN Outcome("ok", fixed, count1, << <<"Ignoring share", s>> >>)
        ELSE IF FieldImplemented(w)
        THEN Outcome("ok",
                     [fixed EXCEPT !.x_values = Append(@, XStore(s))],
                     count1, <<>>)
        ELSE Outcome("not implemented", fixed, count1, <<>>)

\* lines 121-181: one iteration of the loop over the lines of stdin
ParseShare(line, decoder, count, build) ==
    LET hlen == Len(line.hex)
    IN  IF line.nseg # 5
        THEN Outcome("wrong number of fields", decoder, count, <<>>)
        ELSE IF ~ParseU16(line.k) \/ ~ParseU16(line.w) \/ ~ParseU64(line.s)
        THEN Outcome("ParseIntError", decoder, count, <<>>)
        ELSE IF line.tail # 0
        THEN Outcome("assertion failed", decoder, count, <<>>)
        ELSE IF line.w = 0
        THEN Outcome("remainder with a divisor of zero", decoder, count, <<>>)
        ELSE IF (hlen * 4) % line.w # 0
        THEN Outcome("not a multiple of field width", decoder, count, <<>>)
        ELSE IF line.w = 4 /\ hlen % 2 # 0
        THEN Outcome("missing final (padding) nibble", decoder, count, <<>>)
        ELSE IF ~HexValid(line.hex)
        THEN Outcome("FromHexError", decoder, count, <<>>)
        ELSE Admit(line,
                   [decoder EXCEPT !.shares = @ \o HexDecode(line.hex)],
                   count, build)

(***************************************************************************)
(* pass_1 and pass_2.  Vec indices are 0-based in the program, sequences   *)
(* 1-based here: v[n] of the program is v[n + 1] of the model.             *)
(***************************************************************************)
Value(val) == [msg |-> "ok", val |-> val]
Panic(msg) == [msg |-> msg, val |-> 0]

\* Pass1Term with x_j for x_l in the numerator
Pass1TermSwapped(x_values, j, l, temp, dz) ==
    IF l >= Len(x_values) \/ j >= Len(x_values)
    THEN Panic("index out of bounds")
    ELSE LET num == Mul(temp, x_values[j + 1])
             den == Xor(x_values[j + 1], x_values[l + 1])
         IN  IF den # 0 THEN Value(Div(num, den))
             ELSE IF dz = "panic" THEN Panic("DivisionByZero")
             ELSE Value(0)

\* lines 257-259: one factor x_l / (x_j ^ x_l) multiplied into temp
Pass1Term(x_values, j, l, temp, dz) ==
    IF l >= Len(x_values) \/ j >= Len(x_values)
    THEN Panic("index out of bounds")
    ELSE LET num == Mul(temp, x_values[l + 1])
             den == Xor(x_values[j + 1], x_values[l + 1])
         IN  IF den # 0 THEN Value(Div(num, den))
             ELSE IF dz = "panic" THEN Panic("DivisionByZero")
             ELSE Value(0)

RECURSIVE Pass1Inner(_, _, _, _, _, _)

\* Pass1Inner without the test l != j
RECURSIVE Pass1InnerNoSkip(_, _, _, _, _, _)
Pass1InnerNoSkip(x_values, k, j, l, temp, dz) ==
    IF l >= k THEN Value(temp)
    ELSE LET t == Pass1Term(x_values, j, l, temp, dz)
         IN  IF t.msg # "ok" THEN t
             ELSE Pass1InnerNoSkip(x_values, k, j, l + 1, t.val, dz)

\* lines 255-261: the inner loop from l on
Pass1Inner(x_values, k, j, l, temp, dz) ==
    IF l >= k THEN Value(temp)
    ELSE IF l = j THEN Pass1Inner(x_values, k, j, l + 1, temp, dz)
    ELSE LET t == Pass1Term(x_values, j, l, temp, dz)
         IN  IF t.msg # "ok" THEN t
             ELSE Pass1Inner(x_values, k, j, l + 1, t.val, dz)

\* Pass1Coefficient with the inner loop starting at l = j
Pass1CoefficientFromJ(decoder, j, dz) ==
    LET t == Pass1Inner(decoder.x_values, decoder.quorum, j, j, 1, dz)
    IN  IF t.msg # "ok" THEN t
        ELSE IF t.val = 0 THEN Panic("Linear independence not satisfied")
        ELSE t

\* lines 254-262: the coefficient of share j, or the panic that ends it
Pass1Coefficient(decoder, j, dz) ==
    LET t == Pass1Inner(decoder.x_values, decoder.quorum, j, 0, 1, dz)
    IN  IF t.msg # "ok" THEN t
        ELSE IF t.val = 0 THEN Panic("Linear independence not satisfied")
        ELSE t

\* line 275
Words(decoder) == decoder.hex_length \div 2

\* line 289
Lindex(i, j, words) == i + j * words

\* lines 287-296: the inner loop from j on
RECURSIVE Pass2Inner(_, _, _, _)
Pass2Inner(decoder, i, j, temp) ==
    IF j >= decoder.quorum THEN Value(temp)
    ELSE LET lindex == Lindex(i, j, Words(decoder))
         IN  IF lindex >= Len(decoder.shares) \/ j >= Len(decoder.coefficients)
             THEN Panic("index out of bounds")
             ELSE Pass2Inner(decoder, i, j + 1,
                      Xor(temp, Mul(decoder.shares[lindex + 1],
                                    decoder.coefficients[j + 1])))

\* lines 284-297: word i of the answer
Pass2Word(decoder, i) == Pass2Inner(decoder, i, 0, 0)

(***************************************************************************)
(* The state of the process.                                               *)
(*   pc       where main is: "parse_shares", "main" (the match on the      *)
(*            width), "pass_1", "pass_2" or "exit"                         *)
(*   panicMsg the message of the panic that killed the process at pc,      *)
(*            "" while it is alive                                         *)
(*   decoder  the Decoder struct; count, j, i, ans the locals of           *)
(*            parse_shares, pass_1 and pass_2                              *)
(*   stdout   what println! has written                                    *)
(*   stdin    the set of lines the line source may supply next             *)
(*   input    the lines read so far                                        *)
(*   origin   where the lines come from: arbitrary text, or the shares of  *)
(*            a secret that was split                                      *)
(***************************************************************************)
VARIABLES pc, panicMsg, decoder, count, j, i, ans, stdout, stdin, input, origin

vars == <<pc, panicMsg, decoder, count, j, i, ans, stdout, stdin, input, origin>>

\* lines 108-115
NewDecoder ==
    [quorum |-> 0, width |-> 0, hex_length |-> 0, x_values |-> <<>>,
     shares |-> <<>>, coefficients |-> <<>>, solution |-> <<>>]

\* hex digits of a byte sequence, high digit first
RECURSIVE HexEncode(_)
HexEncode(bytes) ==
    IF bytes = <<>> THEN <<>>
    ELSE <<Head(bytes) \div 16, Head(bytes) % 16>> \o HexEncode(Tail(bytes))

\* first bytes of the modelled share values
ValueBytes == {65, 229}

\* a share value of m words: b, b + 7, b + 14, ...
ValueSeq(b, m) == [n \in 1..m |-> (b + 7 * (n - 1)) % FieldSize]

\* share indices the modelled lines carry
Indices == {1, 2, 128}

\* the lines of a session of quorum k whose shares have m words
WellFormedLines(k, m) ==
    {Line(k, 8, s, HexEncode(ValueSeq(b, m))) : s \in Indices, b \in ValueBytes}

\* lines that disagree with that session in K, W or length
DeviantLines(k, m) ==
    {Line(k + 1, 8, 1, HexEncode(ValueSeq(65, m))),
     Line(k, 8, 1, HexEncode(ValueSeq(65, m + 1))),
     Line(k, 16, 1, HexEncode(ValueSeq(65, 2 * m)))}

\* lines of that session whose index is out of range, and quorums out of range
OutOfRangeLines(k, m) ==
    {Line(k, 8, s, HexEncode(ValueSeq(65, m))) : s \in {0, 129}}
    \cup {Line(0, 8, 1, <<4, 1>>), Line(129, 8, 1, <<4, 1>>),
          Line(9, 4, 1, <<4, 1>>), Line(40000, 32, 1, <<>>)}

MalformedLines ==
    {[Line(1, 8, 1, <<4, 1>>) EXCEPT !.nseg = 4],
     [Line(1, 8, 1, <<4, 1>>) EXCEPT !.tail = 1],
     Line(0 - 1, 8, 1, <<4, 1>>),
     Line(1, 8, 1, <<4>>),
     Line(1, 4, 1, <<4>>),
     Line(1, 8, 1, <<4, 16>>),
     Line(1, 0, 1, <<4, 1>>)}

OtherWidthLines ==
    {Line(1, 4, 1, <<4, 1>>), Line(1, 5, 1, <<>>),
     Line(1, 16, 1, <<4, 1, 14, 5>>), Line(1, 32, 1, <<>>)}

StdinLines(k, m) ==
    WellFormedLines(k, m) \cup DeviantLines(k, m) \cup OutOfRangeLines(k, m)
        \cup MalformedLines \cup OtherWidthLines

(***************************************************************************)
(* The symmetric construction: shares of a secret.  Word n of the secret   *)
(* is the constant term of a polynomial of degree K-1 whose other          *)
(* coefficients are coefs[n]; the share of index x carries its values at x.*)
(***************************************************************************)
SeqsUpTo(S, n) == UNION {[1..m -> S] : m \in 0..n}

\* Horner evaluation of a_0 + a_1 x + ... at x
RECURSIVE PolyEval(_, _)
PolyEval(coefs, x) ==
    IF coefs = <<>> THEN 0
    ELSE Xor(Head(coefs), Mul(x, PolyEval(Tail(coefs), x)))

\* the polynomial of word n: the coefficients differ from word to word
WordPoly(secret, coefs, n) ==
    <<secret[n]>> \o [d \in 1..Len(coefs) |->
                         (coefs[d] + 11 * (n - 1)) % FieldSize]

SplitShare(k, secret, coefs, x) ==
    Line(k, 8, x,
         HexEncode([n \in 1..Len(secret) |->
                       PolyEval(WordPoly(secret, coefs, n), x)]))

SecretBytes == {65, 229}
CoefBytes == {0, 156}
SplitIndices == {1, 2, 3, 128}

Start ==
    /\ pc = "parse_shares"
    /\ panicMsg = ""
    /\ decoder = NewDecoder
    /\ count = 0
    /\ j = 0
    /\ i = 0
    /\ ans = <<>>
    /\ stdout = <<>>
    /\ input = <<>>

\* stdin carries arbitrary lines: the shares of some session mixed with
\* lines that disagree with it, are out of range or are malformed
Init ==
    /\ Start
    /\ \E k \in 1..MaxK, m \in 0..MaxWords : stdin = StdinLines(k, m)
    /\ origin = [split |-> FALSE, secret |-> <<>>]

\* stdin carries shares of a secret that was split with quorum k
InitSplit ==
    /\ Start
    /\ \E k \in 1..MaxK, secret \in SeqsUpTo(SecretBytes, MaxWords) :
          \E coefs \in [1..(k - 1) -> CoefBytes] :
             /\ stdin = {SplitShare(k, secret, coefs, x) : x \in SplitIndices}
             /\ origin = [split |-> TRUE, secret |-> secret]

\* lines 117-181: the loop reads one more line
ReadLine ==
    /\ pc = "parse_shares"
    /\ panicMsg = ""
    /\ Len(input) < MaxLines
    /\ \E line \in stdin, build \in Builds :
          LET r == ParseShare(line, decoder, count, build)
          IN  /\ input' = Append(input, line)
              /\ decoder' = r.decoder
              /\ count' = r.count
              /\ stdout' = stdout \o r.out
              /\ panicMsg' = IF r.msg = "ok" THEN "" ELSE r.msg
    /\ UNCHANGED <<pc, j, i, ans, stdin, origin>>

\* lines 182, 316-326, 251-252: stdin is exhausted, parse_shares returns
\* and main selects the field
EndOfInput ==
    /\ pc = "parse_shares"
    /\ panicMsg = ""
    /\ IF decoder.width = 8
       THEN pc' = "pass_1" /\ panicMsg' = ""
       ELSE /\ pc' = "main"
            /\ panicMsg' = IF decoder.width \in {4, 16, 32}
                           THEN "Got field size" ELSE "explicit panic"
    /\ j' = 0
    /\ UNCHANGED <<decoder, count, i, ans, stdout, stdin, input, origin>>

\* lines 253-264, 271-282: one iteration of the loop of pass_1; after the
\* last one pass_2 begins
Pass1Iteration ==
    /\ pc = "pass_1"
    /\ panicMsg = ""
    /\ j < decoder.quorum
    /\ \E dz \in DivZeroOutcomes :
          LET c == Pass1Coefficient(decoder, j, dz)
          IN  IF c.msg # "ok"
              THEN /\ panicMsg' = c.msg
                   /\ UNCHANGED <<pc, decoder, j>>
              ELSE /\ decoder' = [decoder EXCEPT
                                     !.coefficients = Append(@, c.val)]
                   /\ j' = j + 1
                   /\ pc' = IF j + 1 < decoder.quorum THEN "pass_1" ELSE "pass_2"
                   /\ UNCHANGED panicMsg
    /\ i' = 0
    /\ ans' = <<>>
    /\ UNCHANGED <<count, stdout, stdin, input, origin>>

\* lines 283-298: one iteration of the loop of pass_2
Pass2Iteration ==
    /\ pc = "pass_2"
    /\ panicMsg = ""
    /\ i < Words(decoder)
    /\ LET t == Pass2Word(decoder, i)
       IN  IF t.msg # "ok"
           THEN /\ panicMsg' = t.msg
                /\ UNCHANGED <<i, ans>>
           ELSE /\ ans' = Append(ans, t.val)
                /\ i' = i + 1
                /\ UNCHANGED panicMsg
    /\ UNCHANGED <<pc, decoder, count, j, stdout, stdin, input, origin>>

\* lines 299, 328: pass_2 returns and main prints the answer
PrintAnswer ==
    /\ pc = "pass_2"
    /\ panicMsg = ""
    /\ i >= Words(decoder)
    /\ stdout' = Append(stdout, <<"Answer", ans>>)
    /\ pc' = "exit"
    /\ UNCHANGED <<panicMsg, decoder, count, j, i, ans, stdin, input, origin>>

Next ==
    \/ ReadLine
    \/ EndOfInput
    \/ Pass1Iteration
    \/ Pass2Iteration
    \/ PrintAnswer

Spec == Init /\ [][Next]_vars

SpecSplit == InitSplit /\ [][Next]_vars

(***************************************************************************)
(* Vocabulary of the properties.                                           *)
(***************************************************************************)
Alive == panicMsg = ""
Dead == panicMsg # ""

Min(a, b) == IF a < b THEN a ELSE b

\* the "Answer" lines and the "Ignoring share" lines of stdout
Answers == SelectSeq(stdout, LAMBDA o : o[1] = "Answer")
Ignorings == SelectSeq(stdout, LAMBDA o : o[1] = "Ignoring share")

\* the run has gone past parse_shares and main's match into the passes
InPasses == pc \in {"pass_1", "pass_2", "exit"}

\* two x values stored for pass 1 agree
DuplicateAdmitted ==
    \E a, b \in DOMAIN decoder.x_values :
        a # b /\ decoder.x_values[a] = decoder.x_values[b]

\* the whole program as a function of its input: parse_shares over the
\* lines, then pass_1, then pass_2
RECURSIVE ParseAll(_, _, _)
ParseAll(lines, dec, cnt) ==
    IF lines = <<>> THEN Outcome("ok", dec, cnt, <<>>)
    ELSE LET r == ParseShare(Head(lines), dec, cnt, "release")
         IN  IF r.msg # "ok" THEN r
             ELSE ParseAll(Tail(lines), r.decoder, r.count)

RECURSIVE Pass1All(_, _)
Pass1All(dec, jj) ==
    IF jj >= dec.quorum THEN [msg |-> "ok", decoder |-> dec]
    ELSE LET c == Pass1Coefficient(dec, jj, "panic")
         IN  IF c.msg # "ok" THEN [msg |-> c.msg, decoder |-> dec]
             ELSE Pass1All([dec EXCEPT !.coefficients = Append(@, c.val)],
                           jj + 1)

RECURSIVE Pass2All(_, _, _)
Pass2All(dec, ii, acc) ==
    IF ii >= Words(dec) THEN Value(acc)
    ELSE LET t == Pass2Word(dec, ii)
         IN  IF t.msg # "ok" THEN [msg |-> t.msg, val |-> <<>>]
             ELSE Pass2All(dec, ii + 1, Append(acc, t.val))

Reconstruct(lines) ==
    LET p == ParseAll(lines, NewDecoder, 0)
    IN  IF p.msg # "ok" \/ p.decoder.width # 8
        THEN [msg |-> "failed", val |-> <<>>]
        ELSE LET c == Pass1All(p.decoder, 0)
             IN  IF c.msg # "ok" THEN [msg |-> "failed", val |-> <<>>]
                 ELSE Pass2All(c.decoder, 0, <<>>)

\* the first K lines of the input, K the quorum of the session
FirstK == SubSeq(input, 1, Min(Len(input), decoder.quorum))

Bijections(n) == {p \in [1..n -> 1..n] : \A a, b \in 1..n : a # b => p[a] # p[b]}

(***************************************************************************)
(* C1: round trip at width 8.  When the lines are shares of a split secret *)
(* and the first K of them carry pairwise distinct indices, a run that     *)
(* has read at least K lines never dies in the passes, every word pass_2   *)
(* has produced is the word of the secret, and the run that ends prints    *)
(* exactly the secret.                                                     *)
(***************************************************************************)
RoundTrip ==
    (origin.split /\ InPasses /\ count >= decoder.quorum /\ ~DuplicateAdmitted)
        => /\ Alive
           /\ ans = SubSeq(origin.secret, 1, Len(ans))
           /\ pc = "exit" => Answers = << <<"Answer", origin.secret>> >>

\* the scenario of the specification: K = 2, secret 0x41, shares 1 and 2
RoundTripWitness ==
    /\ origin.split
    /\ pc = "exit"
    /\ origin.secret = <<65>>
    /\ decoder.quorum = 2
    /\ decoder.x_values = <<1, 2>>
    /\ decoder.shares # <<65, 65>>
    /\ Answers = << <<"Answer", <<65>>>> >>

(***************************************************************************)
(* C2: duplicate rejection.  Two admitted shares with the same index are   *)
(* rejected at admission: the process is dead before pass 1 has computed   *)
(* anything, and no answer is printed.                                     *)
(***************************************************************************)
DuplicateRejectedAtAdmission ==
    DuplicateAdmitted
        => /\ Dead
           /\ pc = "parse_shares"
           /\ decoder.coefficients = <<>>
           /\ Answers = <<>>

(***************************************************************************)
(* C3: insufficiency rejection.  When parse_shares returns with fewer than *)
(* K shares (or none at all), the process is dead before pass 1 begins and *)
(* no answer is printed.                                                   *)
(***************************************************************************)
QuorumInsufficientRejected ==
    (pc # "parse_shares" /\ (count = 0 \/ count < decoder.quorum))
        => /\ Dead
           /\ pc = "main"
           /\ Answers = <<>>

(***************************************************************************)
(* C4: over-supply tolerance.  While the process is alive the x values are *)
(* the indices of the first K lines and every line after the K-th is       *)
(* reported as ignored with its index; the answer of a run that ends is    *)
(* the answer of the program on the first K lines alone.                   *)
(***************************************************************************)
OverSupplyTolerance ==
    Alive =>
        /\ decoder.x_values = [n \in 1..Len(FirstK) |-> input[n].s]
        /\ Ignorings = [n \in 1..(Len(input) - Len(FirstK)) |->
                           <<"Ignoring share", input[Len(FirstK) + n].s>>]
        /\ (pc = "exit" /\ Len(input) > decoder.quorum)
              => LET r == Reconstruct(FirstK)
                 IN  r.msg = "ok" /\ Answers = << <<"Answer", r.val>> >>

OverSupplyWitness ==
    /\ pc = "exit"
    /\ decoder.quorum = 2
    /\ Len(input) = 4
    /\ Len(ans) = 2
    /\ input[3].s = input[1].s
    /\ input[3].hex # input[1].hex
    /\ Len(Ignorings) = 2

(***************************************************************************)
(* C5: order independence.  The answer of a run that ends on K shares with *)
(* pairwise distinct indices is the answer of the program on every         *)
(* permutation of those K lines.                                           *)
(***************************************************************************)
OrderIndependence ==
    (pc = "exit" /\ ~DuplicateAdmitted)
        => \A p \in Bijections(Len(FirstK)) :
              LET r == Reconstruct([n \in 1..Len(FirstK) |-> FirstK[p[n]]])
              IN  r.msg = "ok" /\ Answers = << <<"Answer", r.val>> >>

OrderIndependenceWitness ==
    /\ pc = "exit"
    /\ decoder.quorum = 3
    /\ decoder.x_values = <<128, 1, 2>>
    /\ Len(ans) = 2
    /\ input[1].hex # input[2].hex

(***************************************************************************)
(* C6: no partial output.  "Answer" is printed at most once; when it has   *)
(* been printed the process is alive at its exit, every line of the input  *)
(* had passed validation, at least K lines with pairwise distinct indices  *)
(* had been admitted, pass 1 had produced exactly K coefficients and       *)
(* pass 2 every word of the answer printed.  A dead process has printed    *)
(* no answer.                                                              *)
(***************************************************************************)
\* a line of a width 8 session that passes every validation of section 7
ValidLine(line, first) ==
    /\ line.nseg = 5 /\ line.tail = 0
    /\ line.k \in 1..128 /\ line.w = 8 /\ line.s \in 1..128
    /\ Len(line.hex) % 2 = 0
    /\ \A n \in 1..Len(line.hex) : line.hex[n] \in 0..15
    /\ line.k = first.k /\ line.w = first.w /\ Len(line.hex) = Len(first.hex)

NoPartialOutput ==
    /\ Len(Answers) <= 1
    /\ Dead => Answers = <<>>
    /\ pc # "exit" => Answers = <<>>
    /\ pc = "exit" =>
          /\ Alive
          /\ Len(input) >= 1
          /\ \A n \in 1..Len(input) : ValidLine(input[n], input[1])
          /\ count >= decoder.quorum
          /\ ~DuplicateAdmitted
          /\ Len(decoder.coefficients) = decoder.quorum
          /\ j = decoder.quorum
          /\ i = Words(decoder)
          /\ Len(ans) = Words(decoder)
          /\ stdout[Len(stdout)] = <<"Answer", ans>>

\* an answer was printed after lines beyond the quorum had been read
NoPartialOutputWitness ==
    /\ pc = "exit"
    /\ Len(Answers) = 1
    /\ Len(input) > decoder.quorum
    /\ decoder.quorum = 2
    /\ Len(ans) = 2

(***************************************************************************)
(* C7: session consistency.  A line after the first whose K, W or VALUES   *)
(* length differs from the first line's kills the process when it is       *)
(* read, so it is the last line read; while the process is alive every     *)
(* line read agrees with the quorum, width and length of the session.      *)
(***************************************************************************)
Differs(line, first) ==
    line.k # first.k \/ line.w # first.w \/ Len(line.hex) # Len(first.hex)

SessionConsistency ==
    /\ \A n \in 2..Len(input) :
          Differs(input[n], input[1])
             => Dead /\ pc = "parse_shares" /\ n = Len(input)
    /\ Alive =>
          \A n \in 1..Len(input) :
             /\ input[n].k = decoder.quorum
             /\ input[n].w = decoder.width
             /\ Len(input[n].hex) = decoder.hex_length

\* a line of another length arrives after the quorum is filled
SessionConsistencyWitness ==
    /\ Dead
    /\ panicMsg = "wrong share length"
    /\ decoder.quorum = 2
    /\ Len(input) = 4

(***************************************************************************)
(* C8: range validation.  A first line whose K is outside [1, 2^(W-1)]     *)
(* kills the process; a line whose S is outside [1, 2^(W-1)] kills it when *)
(* it is read, also after the quorum is filled; every x value stored is    *)
(* the index of its line, between 1 and 128.                               *)
(***************************************************************************)
\* n is outside [1, 2^(w-1)]; every number of the model is below 2^31
OutOfRange(n, w) == n < 1 \/ (w \in 1..31 /\ n > Pow2(w - 1))

RangeValidation ==
    /\ (Len(input) >= 1 /\ OutOfRange(input[1].k, input[1].w))
          => Dead /\ pc = "parse_shares" /\ Len(input) = 1
    /\ \A n \in 1..Len(input) :
          OutOfRange(input[n].s, input[n].w)
             => Dead /\ pc = "parse_shares" /\ n = Len(input)
    /\ \A n \in DOMAIN decoder.x_values :
          /\ decoder.x_values[n] = input[n].s
          /\ decoder.x_values[n] \in 1..128

\* an index above 2^(W-1) arrives after the quorum is filled
RangeValidationWitness ==
    /\ Dead
    /\ panicMsg = "bad share index"
    /\ decoder.quorum = 2
    /\ Len(input) = 3
    /\ input[3].s = 129
    /\ decoder.x_values = <<128, 1>>

(***************************************************************************)
(* C9: unsupported width.  A first line of a width other than 8 kills the  *)
(* process while it is read; when nothing else is wrong with the line the  *)
(* panic is that of an unknown width, of a width whose shift overflows, or *)
(* of a width the build does not implement (for a K of at most 2^15, the   *)
(* largest a shift of a u16 can compare with).  No answer is printed, and  *)
(* the passes are reached only in a session of width 8; main's match       *)
(* never sees the widths 4, 16 and 32.                                     *)
(***************************************************************************)
\* what parse_shares checks before it looks at the width of a first line
WellFramed(line) ==
    /\ line.nseg = 5 /\ line.tail = 0
    /\ line.k >= 0 /\ line.k <= 65535 /\ line.w >= 1 /\ line.w <= 65535
    /\ line.s >= 0
    /\ (4 * Len(line.hex)) % line.w = 0
    /\ Len(line.hex) % 2 = 0
    /\ \A n \in 1..Len(line.hex) : line.hex[n] \in 0..15

UnsupportedWidthMessages ==
    {"bad field width", "attempt to shift left with overflow", "not implemented"}

UnsupportedWidth ==
    /\ (Len(input) >= 1 /\ input[1].nseg = 5 /\ input[1].w # 8)
          => /\ Dead /\ pc = "parse_shares" /\ Len(input) = 1
             /\ Answers = <<>>
             /\ (/\ WellFramed(input[1])
                 /\ ~OutOfRange(input[1].k, input[1].w)
                 /\ ~OutOfRange(input[1].s, input[1].w)
                 /\ input[1].k <= 32768)
                   => panicMsg \in UnsupportedWidthMessages
    /\ InPasses => decoder.width = 8 /\ \A n \in 1..Len(input) : input[n].w = 8
    /\ panicMsg # "Got field size"

\* a well-formed share of width 16
UnsupportedWidthWitness ==
    /\ Dead
    /\ panicMsg = "not implemented"
    /\ input = <<Line(1, 16, 1, <<4, 1, 14, 5>>)>>

(***************************************************************************)
(* C10: the self-check of pass 1 is unreachable on valid input.  With K    *)
(* pairwise distinct x values pass 1 neither divides by zero nor finds a   *)
(* zero coefficient: it stays alive, every coefficient it has pushed is    *)
(* nonzero, it leaves exactly K of them, and the only one is 1 when K = 1. *)
(***************************************************************************)
Pass1SelfCheckUnreachable ==
    (InPasses /\ ~DuplicateAdmitted /\ Len(decoder.x_values) >= decoder.quorum)
        => /\ pc = "pass_1" => Alive
           /\ panicMsg \notin {"DivisionByZero", "Linear independence not satisfied"}
           /\ \A n \in DOMAIN decoder.coefficients : decoder.coefficients[n] # 0
           /\ Len(decoder.coefficients) <= decoder.quorum
           /\ pc \in {"pass_2", "exit"}
                 => Len(decoder.coefficients) = decoder.quorum
           /\ (decoder.quorum = 1 /\ pc \in {"pass_2", "exit"})
                 => decoder.coefficients = <<1>>

Pass1SelfCheckWitness ==
    /\ pc = "pass_2"
    /\ Alive
    /\ decoder.quorum = 3
    /\ decoder.x_values = <<2, 128, 1>>
    /\ Len(decoder.coefficients) = 3

====
